---- MODULE Spec2Model ----
(***************************************************************************)
(* Model of the Flask application in src/app.py and of the image decoder   *)
(* in src/util.py.                                                          *)
(*                                                                          *)
(* Spec        one client (a cookie jar and a Flask session) sending one   *)
(*             request after another; every action is one whole handler.   *)
(* SpecAny     Spec plus a client that may present any cookie value.       *)
(* SpecThreads two /predict requests served by the threaded server         *)
(*             (app.run(threaded=True)), interleaved at the file            *)
(*             operations on uploads/image.jpg.                             *)
(*                                                                          *)
(* JSON values are abstracted to the classes the handlers distinguish:     *)
(* strings stand for themselves, "<...>" marks a value that is no string.  *)
(***************************************************************************)
EXTENDS Integers, Sequences, FiniteSets, TLC

\* ------------------------------------------------------------------ bounds
\* Number of distinct decodable images a client can upload.
NumImages == 2
\* Resolution of the score grid: score k stands for the float k / ScoreDen.
ScoreDen == 4

Images == 1..NumImages
\* A score is a float of the grid or NaN.
Scores == [nan : {FALSE}, num : 0..ScoreDen] \cup {[nan |-> TRUE, num |-> 0]}

\* ------------------------------------------------------------- JSON values
NoCookie == "<none>"
Undefined == "<undefined>"
NonStrings == {"<undefined>", "<null>", "<0>", "<7>", "<[1]>"}
IsStr(v) == v \notin NonStrings
\* Python truthiness of a JSON value ("  " is a non-empty string).
Truthy(v) == v \notin {"<undefined>", "<null>", "<0>", ""}
\* str.strip() leaves nothing.
IsBlank(v) == v \in {"", "  "}

\* A request body as get_json sees it.  kind: "absent" (no body, wrong
\* content type or unparsable), "null" (the JSON null), "falsy" ([], 0, "",
\* false), "nonobject" (a non-empty list, a number, true), "string" (a
\* non-empty JSON string, val is its text), "object" (val is the value of
\* the key the route reads, Undefined when the key is missing).  When val is
\* "<b64>" the string is prefix + base64(image img).
Body(kind, val, prefix, img) == [kind |-> kind, val |-> val, prefix |-> prefix, img |-> img]
PlainBody(kind, val) == Body(kind, val, "none", 0)

NonObjectBodies == {PlainBody(k, Undefined) : k \in {"absent", "null", "falsy", "nonobject"}}
                     \cup {PlainBody("string", "abc")}

SessionBodies == NonObjectBodies \cup
    {PlainBody("object", v) : v \in {"<undefined>", "<null>", "<0>", "<7>", "<[1]>", "", "tokA", "tokB"}}

GeminiBodies == NonObjectBodies \cup
    {PlainBody("object", v) : v \in {"<undefined>", "<null>", "<0>", "", "hello"}}

Prefixes == {"none", "image", "other"}
Base64Strings == {Body(k, "<b64>", p, i) : k \in {"string", "object"}, p \in Prefixes, i \in Images}
PredictBodies == NonObjectBodies \cup Base64Strings \cup
    {PlainBody("string", "garbage")} \cup
    {PlainBody("object", v) : v \in {"<undefined>", "<null>", "<7>", "", "  ", "garbage"}}

\* ------------------------------------------------------------------- state
VARIABLES
    session_user,   \* the client's Flask session holds 'user' = True
    cookie,         \* the client's 'sb-access-token' cookie, NoCookie when absent
    req,            \* the request being answered
    resp,           \* its response
    did,            \* what the handler did while answering it
    file,           \* uploads/image.jpg: 0 missing, -1 partly written, else the image
    weights,        \* the loaded model: the score it gives each image
    api_key,        \* GEMINI_API_KEY is set in the environment
    pc, timg, pil, loaded, preds, tresp, writers, overlapped   \* SpecThreads

vars == <<session_user, cookie, req, resp, did, file, weights, api_key,
          pc, timg, pil, loaded, preds, tresp, writers, overlapped>>
threadVars == <<pc, timg, pil, loaded, preds, tresp, writers, overlapped>>


\* ------------------------------------------------------------ auth gate
\* A variant without the length test: any cookie that is present
\* authenticates, the empty one included.
is_authenticated_any_cookie(user, token) == user \/ token # NoCookie

\* _is_authenticated(req): the session flag, else a cookie that is present
\* and of length > 0.
is_authenticated(user, token) == user \/ (token # NoCookie /\ token # "")

\* ------------------------------------------------------------ responses
BaseResp == [status |-> 200, kind |-> "html", error |-> "", location |-> "",
             set_cookie |-> NoCookie, ok |-> FALSE, result |-> "", reply |-> ""]
jsonify_error(status, msg) == [BaseResp EXCEPT !.status = status, !.kind = "json", !.error = msg]
jsonify_ok == [BaseResp EXCEPT !.kind = "json", !.ok = TRUE]
redirect(to) == [BaseResp EXCEPT !.status = 302, !.kind = "redirect", !.location = to]
render_template(name) == [BaseResp EXCEPT !.location = name]
\* An exception no handler catches: app.run(debug=True) propagates it to the
\* debugger page, a 500 that is not JSON and carries no Set-Cookie; the
\* session is not saved.
Unhandled == [BaseResp EXCEPT !.status = 500, !.kind = "traceback"]

NoEffects == [decode |-> FALSE, save |-> FALSE, score |-> FALSE, outbound |-> FALSE]
\* What a handler leaves behind: its response, the session flag, its effects
\* and the uploaded file.
Out(r, user, d, f) == [resp |-> r, user |-> user, did |-> d, file |-> f]

\* request.get_json(silent=True) or {}
get_json_or_empty(body) ==
    IF body.kind \in {"absent", "null", "falsy"} THEN PlainBody("object", Undefined) ELSE body

\* ------------------------------------------------------- simple routes
index(user, f) == Out(render_template("index.html"), user, NoEffects, f)

auth_page(user, token, f) ==
    IF is_authenticated(user, token)
    THEN Out(redirect("/dashboard"), user, NoEffects, f)
    ELSE Out(render_template("auth.html"), user, NoEffects, f)

dashboard(user, token, f) ==
    IF ~is_authenticated(user, token)
    THEN Out(redirect("/"), user, NoEffects, f)
    ELSE Out(render_template("dashboard.html"), user, NoEffects, f)

\* A variant that sets the session flag before it looks at the token.
create_session_flag_first(body, user, f) ==
    LET data == get_json_or_empty(body) IN
    IF data.kind # "object" THEN Out(Unhandled, user, NoEffects, f)
    ELSE LET access_token == data.val IN
         IF ~Truthy(access_token)
         THEN Out(jsonify_error(400, "missing access_token"), TRUE, NoEffects, f)
         ELSE IF ~IsStr(access_token) THEN Out(Unhandled, user, NoEffects, f)
         ELSE Out([jsonify_ok EXCEPT !.set_cookie = access_token], TRUE, NoEffects, f)

\* POST /session.  data.get on a body that is not an object raises
\* AttributeError, and set_cookie raises TypeError on a value that is not a
\* string; neither is inside a try block.
create_session(body, user, f) ==
    LET data == get_json_or_empty(body) IN
    IF data.kind # "object" THEN Out(Unhandled, user, NoEffects, f)
    ELSE LET access_token == data.val IN
         IF ~Truthy(access_token)
         THEN Out(jsonify_error(400, "missing access_token"), user, NoEffects, f)
         ELSE IF ~IsStr(access_token) THEN Out(Unhandled, user, NoEffects, f)
         ELSE Out([jsonify_ok EXCEPT !.set_cookie = access_token], TRUE, NoEffects, f)

\* A variant without delete_cookie: the session is cleared, the cookie stays.
logout_keeps_cookie(method, user, f) ==
    Out(IF method = "GET" THEN redirect("/") ELSE jsonify_ok, FALSE, NoEffects, f)

\* GET or POST /logout.
logout(method, user, f) ==
    LET r == IF method = "GET" THEN redirect("/") ELSE jsonify_ok
    IN  Out([r EXCEPT !.set_cookie = "<delete>"], FALSE, NoEffects, f)


\* ------------------------------------------------------- image decoding
Decoded(i) == [ok |-> TRUE, img |-> i, err |-> ""]
ValueError(msg) == [ok |-> FALSE, img |-> 0, err |-> msg]

\* base64_to_pil(data): the string is the object's "image" member or the
\* body itself; a header data:image/<letters>;base64, is removed, any other
\* header stays in front of the payload and spoils it.
base64_to_pil(data) ==
    LET img_base64 == IF data.kind = "object"
                      THEN (IF data.val = Undefined THEN "" ELSE data.val)
                      ELSE IF data.kind \in {"null", "falsy"} THEN ""
                      ELSE IF data.kind = "string" THEN data.val
                      ELSE "<[1]>"
    IN  IF ~IsStr(img_base64) \/ IsBlank(img_base64)
        THEN ValueError("Invalid base64 input: must be a non-empty string")
        ELSE IF img_base64 = "<b64>" /\ data.prefix \in {"none", "image"}
        THEN Decoded(data.img)
        ELSE ValueError("Failed to decode base64 image")

\* ------------------------------------------------------------ inference
\* model_predict(img): the loaded model's output for the image.
model_predict(w, img) == w[img]

\* result > 0.5 on floats: false for NaN.
GreaterThanHalf(result) == ~result.nan /\ 2 * result.num > ScoreDen

\* A variant with >= in place of >.
Diagnosis_at_least(result) ==
    IF ~result.nan /\ 2 * result.num >= ScoreDen THEN "PNEUMONIA" ELSE "NORMAL"

\* diagnosis = "PNEUMONIA" if result > 0.5 else "NORMAL"
Diagnosis(result) == IF GreaterThanHalf(result) THEN "PNEUMONIA" ELSE "NORMAL"

\* A variant of predict without its gate.
predict_gate_open(user, token) == TRUE

\* if not _is_authenticated(request) at the head of predict.
predict_gate(user, token) == is_authenticated(user, token)

\* POST /predict handled without interruption: request.json raises on an
\* absent or unparsable body, base64_to_pil raises ValueError, and both end
\* in the handler's except branch as a 500.
predict(body, user, token, f, w) ==
    IF ~predict_gate(user, token)
    THEN Out(jsonify_error(401, "unauthorized"), user, NoEffects, f)
    ELSE IF body.kind = "absent"
    THEN Out(jsonify_error(500, "bad request"), user, NoEffects, f)
    ELSE LET d == base64_to_pil(body) IN
         IF ~d.ok
         THEN Out(jsonify_error(500, d.err), user, [NoEffects EXCEPT !.decode = TRUE], f)
         ELSE LET img_path == d.img
                  img == img_path
                  result == model_predict(w, img)
              IN  Out([BaseResp EXCEPT !.kind = "json", !.result = Diagnosis(result)],
                      user, [NoEffects EXCEPT !.decode = TRUE, !.save = TRUE, !.score = TRUE],
                      img_path)


\* ------------------------------------------------- upstream JSON shapes
\* A node of the upstream body on the path the handler walks: its JSON type
\* and whether it holds the member asked of it (an object: the key; a list
\* or a string: a first element).
Node(k, has) == [k |-> k, has |-> has]
AllNodes == {Node(k, h) : k \in {"object", "list", "string"}, h \in BOOLEAN}
              \cup {Node("null", FALSE), Node("number", FALSE)}

\* Python's node[key] for a str or an int key.
Subscript(node, key) ==
    CASE node.k = "object" -> IF key = "str" /\ node.has THEN "ok" ELSE "KeyError"
      [] node.k \in {"list", "string"} ->
            IF key = "str" THEN "TypeError"
            ELSE IF node.has THEN "ok" ELSE "IndexError"
      [] OTHER -> "TypeError"

\* data['candidates'][0]['content']['parts'][0]['text']
TextPath == <<"str", "int", "str", "str", "int", "str">>
GoodNode(i) == IF TextPath[i] = "str" THEN Node("object", TRUE) ELSE Node("list", TRUE)
GoodPrefix(n) == [j \in 1..n |-> GoodNode(j)]

\* The bodies a 2xx answer can carry: the expected shape with any value as
\* the text, and every shape that leaves the path at one of its six steps
\* (indexing a non-empty string gives a string, which the next step rejects).
OkShapes ==
    {GoodPrefix(6) \o <<t>> : t \in AllNodes}
    \cup UNION {{GoodPrefix(i - 1) \o <<n>> :
                    n \in {m \in AllNodes : Subscript(m, TextPath[i]) # "ok"}} : i \in 1..6}
    \cup {GoodPrefix(i - 1) \o <<Node("string", TRUE), Node("string", TRUE)>> : i \in {2, 5}}

RECURSIVE Extract(_, _)
\* The outcome of walking TextPath from step i: "ok" or the exception raised.
Extract(shape, i) ==
    IF i > Len(TextPath) THEN "ok"
    ELSE LET r == Subscript(shape[i], TextPath[i])
         IN  IF r # "ok" THEN r ELSE Extract(shape, i + 1)

\* The value found at the end of the path.
TextOf(node) ==
    IF node.k = "string" THEN (IF node.has THEN "upstream text" ELSE "")
    ELSE "<" \o node.k \o ">"

\* The bodies a non-2xx answer can carry, as far as
\* error_data.get('error', {}).get('message', ...) looks at them.
ErrShapes ==
    {<<n>> : n \in AllNodes \ {Node("object", TRUE)}}
    \cup {<<Node("object", TRUE), n>> : n \in AllNodes \ {Node("object", TRUE)}}
    \cup {<<Node("object", TRUE), Node("object", TRUE), t>> : t \in AllNodes}

StatusText == "HTTP 503: body"

\* error_data.get('error', {}).get('message', f'HTTP {status}: {text}'):
\* .get on anything but an object raises AttributeError.
ErrorMsg(shape) ==
    IF shape[1].k # "object" THEN "AttributeError"
    ELSE IF ~shape[1].has THEN StatusText
    ELSE IF shape[2].k # "object" THEN "AttributeError"
    ELSE IF ~shape[2].has THEN StatusText
    ELSE TextOf(shape[3])

\* What requests.post does: net = it raises a RequestException (timeout,
\* connection error); otherwise a response: ok (status < 400), ctjson (its
\* content-type starts with application/json), parses (its body is JSON),
\* shape (that JSON), jsonerr (the class r.json() raises on a body that is
\* not JSON: a RequestException subclass in newer requests, a plain
\* ValueError in older ones).
Upstream(net, ok, ctjson, parses, jsonerr, shape) ==
    [net |-> net, ok |-> ok, ctjson |-> ctjson, parses |-> parses,
     jsonerr |-> jsonerr, shape |-> shape]
JsonErrors == {"RequestException", "ValueError"}
Upstreams ==
    {Upstream(TRUE, FALSE, FALSE, FALSE, "ValueError", <<>>)}
    \cup {Upstream(FALSE, FALSE, FALSE, p, "ValueError", <<>>) : p \in BOOLEAN}
    \cup {Upstream(FALSE, ok, TRUE, FALSE, e, <<>>) : ok \in BOOLEAN, e \in JsonErrors}
    \cup {Upstream(FALSE, TRUE, FALSE, FALSE, e, <<>>) : e \in JsonErrors}
    \cup {Upstream(FALSE, TRUE, TRUE, TRUE, "ValueError", s) : s \in OkShapes}
    \cup {Upstream(FALSE, FALSE, TRUE, TRUE, "ValueError", s) : s \in ErrShapes}


\* ----------------------------------------------------------- /gemini
\* except (KeyError, IndexError) around the extraction of the text.
ExtractCaught == {"KeyError", "IndexError"}

\* The answer to an upstream response that is not r.ok.
gemini_not_ok(up) ==
    IF ~up.ctjson THEN jsonify_error(502, StatusText)
    ELSE IF ~up.parses
    THEN (IF up.jsonerr = "RequestException"
          THEN jsonify_error(502, "gemini request failed")
          ELSE jsonify_error(500, "unexpected error"))
    ELSE LET error_msg == ErrorMsg(up.shape) IN
         IF error_msg = "AttributeError" THEN jsonify_error(500, "unexpected error")
         ELSE jsonify_error(502, error_msg)

\* The answer to an upstream response that is r.ok: data = r.json(), then
\* the text of the first part of the first candidate.
gemini_ok(up) ==
    IF ~up.parses
    THEN (IF up.jsonerr = "RequestException"
          THEN jsonify_error(502, "gemini request failed")
          ELSE jsonify_error(500, "unexpected error"))
    ELSE LET e == Extract(up.shape, 1) IN
         IF e = "ok" THEN [BaseResp EXCEPT !.kind = "json", !.reply = TextOf(up.shape[7])]
         ELSE IF e \in ExtractCaught THEN [BaseResp EXCEPT !.kind = "json", !.reply = ""]
         ELSE jsonify_error(500, "unexpected error")

\* A variant that tests the message only after the API key and the
\* outbound call.
gemini_proxy_checks_message_late(body, user, token, key, up, f) ==
    LET sent == [NoEffects EXCEPT !.outbound = TRUE] IN
    IF ~is_authenticated(user, token)
    THEN Out(jsonify_error(401, "unauthorized"), user, NoEffects, f)
    ELSE LET payload == get_json_or_empty(body) IN
         IF payload.kind # "object" THEN Out(Unhandled, user, NoEffects, f)
         ELSE IF ~key
         THEN Out(jsonify_error(500, "server not configured: GEMINI_API_KEY missing"),
                  user, NoEffects, f)
         ELSE IF ~Truthy(payload.val)
         THEN Out(jsonify_error(400, "message is required"), user, sent, f)
         ELSE Out(IF up.net THEN jsonify_error(502, "gemini request failed")
                  ELSE IF ~up.ok THEN gemini_not_ok(up) ELSE gemini_ok(up), user, sent, f)

\* POST /gemini.  payload.get sits before the try block, so a body that is
\* not an object raises AttributeError out of the handler.
gemini_proxy(body, user, token, key, up, f) ==
    IF ~is_authenticated(user, token)
    THEN Out(jsonify_error(401, "unauthorized"), user, NoEffects, f)
    ELSE LET payload == get_json_or_empty(body) IN
         IF payload.kind # "object" THEN Out(Unhandled, user, NoEffects, f)
         ELSE LET user_message == payload.val IN
              IF ~Truthy(user_message)
              THEN Out(jsonify_error(400, "message is required"), user, NoEffects, f)
              ELSE IF ~key
              THEN Out(jsonify_error(500, "server not configured: GEMINI_API_KEY missing"),
                       user, NoEffects, f)
              ELSE Out(IF up.net THEN jsonify_error(502, "gemini request failed")
                       ELSE IF ~up.ok THEN gemini_not_ok(up) ELSE gemini_ok(up),
                       user, [NoEffects EXCEPT !.outbound = TRUE], f)


\* ------------------------------------------------- one client, in sequence
NoUpstream == Upstream(TRUE, FALSE, FALSE, FALSE, "ValueError", <<>>)
Request(route, method, body, up) ==
    [route |-> route, method |-> method, body |-> body, up |-> up,
     cookie |-> cookie, user |-> session_user]

\* The client's cookie jar after a response: set_cookie stores the value,
\* delete_cookie removes it.
ApplyCookie(jar, set_cookie) ==
    IF set_cookie = NoCookie THEN jar
    ELSE IF set_cookie = "<delete>" THEN NoCookie
    ELSE set_cookie

\* The server answers request r with outcome out and the client applies the
\* response.
Serve(r, out) ==
    /\ req' = r
    /\ resp' = out.resp
    /\ did' = out.did
    /\ file' = out.file
    /\ session_user' = out.user
    /\ cookie' = ApplyCookie(cookie, out.resp.set_cookie)
    /\ UNCHANGED <<weights, api_key>>
    /\ UNCHANGED threadVars

Index ==
    Serve(Request("/", "GET", PlainBody("absent", Undefined), NoUpstream),
          index(session_user, file))

AuthPage ==
    Serve(Request("/auth", "GET", PlainBody("absent", Undefined), NoUpstream),
          auth_page(session_user, cookie, file))

Dashboard ==
    Serve(Request("/dashboard", "GET", PlainBody("absent", Undefined), NoUpstream),
          dashboard(session_user, cookie, file))

CreateSession ==
    \E body \in SessionBodies :
        Serve(Request("/session", "POST", body, NoUpstream),
              create_session(body, session_user, file))

Logout ==
    \E method \in {"GET", "POST"} :
        Serve(Request("/logout", method, PlainBody("absent", Undefined), NoUpstream),
              logout(method, session_user, file))

Predict ==
    \E body \in PredictBodies :
        Serve(Request("/predict", "POST", body, NoUpstream),
              predict(body, session_user, cookie, file, weights))

\* requests.post answers only when the handler reaches it.
GeminiProxy ==
    \E body \in GeminiBodies :
        \E up \in IF gemini_proxy(body, session_user, cookie, api_key, NoUpstream, file).did.outbound
                  THEN Upstreams ELSE {NoUpstream} :
            Serve(Request("/gemini", "POST", body, up),
                  gemini_proxy(body, session_user, cookie, api_key, up, file))

\* A client that sends a cookie of its own making.
Cookies == {NoCookie, "", "forged"}
TamperCookie ==
    /\ \E c \in Cookies : cookie' = c
    /\ UNCHANGED <<session_user, req, resp, did, file, weights, api_key>>
    /\ UNCHANGED threadVars

Threads == {"A", "B"}

\* A loaded model that spreads the images over the score grid.
SpreadWeights == [i \in Images |-> [nan |-> FALSE, num |-> (i * ScoreDen) \div NumImages]]

\* The server starts with the model loaded, no upload yet, and a client
\* that holds neither a session nor a cookie.
InitWith(models, keys) ==
    /\ session_user = FALSE
    /\ cookie = NoCookie
    /\ req = Request("<none>", "GET", PlainBody("absent", Undefined), NoUpstream)
    /\ resp = BaseResp
    /\ did = NoEffects
    /\ file = 0
    /\ weights \in models
    /\ api_key \in keys
    /\ pc = [t \in Threads |-> "idle"]
    /\ timg = [t \in Threads |-> 0]
    /\ pil = [t \in Threads |-> 0]
    /\ loaded = [t \in Threads |-> [img |-> 0, intact |-> TRUE]]
    /\ preds = [t \in Threads |-> [nan |-> TRUE, num |-> 0]]
    /\ tresp = [t \in Threads |-> BaseResp]
    /\ writers = {}
    /\ overlapped = [t \in Threads |-> FALSE]

Init == InitWith({SpreadWeights}, BOOLEAN)

Next ==
    \/ Index
    \/ AuthPage
    \/ Dashboard
    \/ CreateSession
    \/ Logout
    \/ Predict
    \/ GeminiProxy

Spec == Init /\ [][Next]_vars

NextAny == Next \/ TamperCookie

SpecAny == Init /\ [][NextAny]_vars


\* ------------------------------------------- two /predict requests at once
\* app.run(threaded=True) gives every request its own thread; predict takes
\* no lock and every thread uses the one path uploads/image.jpg.
seqVars == <<session_user, cookie, req, resp, did, weights, api_key>>
Corrupt == -1

\* Thread t takes a request up to and including base64_to_pil.
Receive(t) ==
    /\ pc[t] = "idle"
    /\ \E body \in PredictBodies, user \in BOOLEAN, token \in {NoCookie, "tokA"} :
         LET d == base64_to_pil(body)
             fails == ~predict_gate(user, token) \/ body.kind = "absent" \/ ~d.ok
         IN  /\ pc' = [pc EXCEPT ![t] = IF fails THEN "done" ELSE "decoded"]
             /\ tresp' = [tresp EXCEPT ![t] = predict(body, user, token, file, weights).resp]
             /\ timg' = [timg EXCEPT ![t] = IF fails THEN 0 ELSE d.img]
             /\ pil' = [pil EXCEPT ![t] = IF fails THEN 0 ELSE d.img]
    /\ UNCHANGED <<file, loaded, preds, writers, overlapped>>
    /\ UNCHANGED seqVars

\* img.save(img_path) opens the file for writing, which empties it.
SaveOpen(t) ==
    /\ pc[t] = "decoded"
    /\ pc' = [pc EXCEPT ![t] = "writing"]
    /\ file' = Corrupt
    /\ writers' = writers \cup {t}
    /\ overlapped' = [u \in Threads |->
                        IF writers = {} THEN (u # t /\ overlapped[u])
                        ELSE (u = t \/ u \in writers \/ overlapped[u])]
    /\ UNCHANGED <<timg, pil, loaded, preds, tresp>>
    /\ UNCHANGED seqVars

\* img.save returns.  A writer alone leaves its image; writers that were
\* open together leave either this writer's image or a mix of both.
SaveClose(t) ==
    /\ pc[t] = "writing"
    /\ pc' = [pc EXCEPT ![t] = "saved"]
    /\ writers' = writers \ {t}
    /\ \E f \in IF overlapped[t] THEN {pil[t], Corrupt} ELSE {pil[t]} : file' = f
    /\ UNCHANGED <<timg, pil, loaded, preds, tresp, overlapped>>
    /\ UNCHANGED seqVars

\* What load_img returns: the image, and whether the file was an intact one.
Pixels(i, intact) == [img |-> i, intact |-> intact]

\* A variant with a file per request: the thread reads back its own image.
load_img_own(t) == pil[t]

\* image.load_img(img_path, ...) reads whatever the path holds now.
load_img(t) == file

\* The thread reads the file back.  A file that is no image makes load_img
\* raise (a 500), or decode to whatever pixels the decoder salvages.
Load(t) ==
    /\ pc[t] = "saved"
    /\ \/ /\ load_img(t) \in Images
          /\ loaded' = [loaded EXCEPT ![t] = Pixels(load_img(t), TRUE)]
          /\ pc' = [pc EXCEPT ![t] = "loaded"]
          /\ UNCHANGED tresp
       \/ /\ load_img(t) \notin Images
          /\ \/ /\ \E i \in Images : loaded' = [loaded EXCEPT ![t] = Pixels(i, FALSE)]
                /\ pc' = [pc EXCEPT ![t] = "loaded"]
                /\ UNCHANGED tresp
             \/ /\ pc' = [pc EXCEPT ![t] = "done"]
                /\ tresp' = [tresp EXCEPT ![t] = jsonify_error(500, "cannot identify image file")]
                /\ UNCHANGED loaded
    /\ UNCHANGED <<file, timg, pil, preds, writers, overlapped>>
    /\ UNCHANGED seqVars

\* preds = model_predict(img); result = preds[0, 0]
Score(t) ==
    /\ pc[t] = "loaded"
    /\ preds' = [preds EXCEPT ![t] = model_predict(weights, loaded[t].img)]
    /\ pc' = [pc EXCEPT ![t] = "scored"]
    /\ UNCHANGED <<file, timg, pil, loaded, tresp, writers, overlapped>>
    /\ UNCHANGED seqVars

\* return jsonify(result=diagnosis)
Respond(t) ==
    /\ pc[t] = "scored"
    /\ tresp' = [tresp EXCEPT ![t] = [BaseResp EXCEPT !.kind = "json", !.result = Diagnosis(preds[t])]]
    /\ pc' = [pc EXCEPT ![t] = "done"]
    /\ UNCHANGED <<file, timg, pil, loaded, preds, writers, overlapped>>
    /\ UNCHANGED seqVars

InitThreads == InitWith([Images -> Scores], {TRUE})

NextThreads ==
    \E t \in Threads :
        \/ Receive(t)
        \/ SaveOpen(t)
        \/ SaveClose(t)
        \/ Load(t)
        \/ Score(t)
        \/ Respond(t)

SpecThreads == InitThreads /\ [][NextThreads]_vars


\* ------------------------------------------------------------ properties
\* The request just answered came without credentials.
Unauthenticated(r) == ~r.user /\ r.cookie \in {NoCookie, ""}
GatedRoutes == {"/dashboard", "/predict", "/gemini"}

\* C1: a POST /predict that carries neither the session flag nor a
\* non-empty sb-access-token cookie is answered 401, and the handler neither
\* decodes an image, nor writes uploads/image.jpg, nor scores anything.
C1_UnauthenticatedPredict ==
    [][(req'.route = "/predict" /\ Unauthenticated(req'))
         => /\ resp'.status = 401
            /\ resp'.kind = "json"
            /\ ~did'.decode /\ ~did'.save /\ ~did'.score
            /\ file' = file]_vars

\* C1 happens: a decodable upload sent with an empty cookie got its 401.
C1_Witness ==
    /\ req.route = "/predict"
    /\ ~req.user /\ req.cookie = ""
    /\ req.body.val = "<b64>" /\ req.body.prefix = "image"
    /\ resp.status = 401

\* The body of a POST /session names no access token: there is no body, it
\* does not parse, it is null or empty, or the token is missing or empty.
NoAccessToken(body) ==
    \/ body.kind \in {"absent", "null", "falsy"}
    \/ body.kind = "object" /\ body.val \in {"<undefined>", "<null>", "<0>", ""}

\* C2: a POST /session whose body (an object, or no usable body at all) has
\* no access_token is answered 400, sets no cookie and leaves the session
\* flag as it was, so that an unauthenticated client stays unauthenticated.
C2_SessionWithoutToken ==
    (req.route = "/session" /\ NoAccessToken(req.body))
      => /\ resp.status = 400
         /\ resp.kind = "json"
         /\ resp.set_cookie = NoCookie
         /\ session_user = req.user
         /\ cookie = req.cookie
         /\ (Unauthenticated(req) => ~session_user /\ cookie \in {NoCookie, ""})

\* C2 happens: an unauthenticated client posted {} and got the 400.
C2_Witness ==
    /\ req.route = "/session"
    /\ req.body = PlainBody("object", Undefined)
    /\ Unauthenticated(req)
    /\ resp.status = 400

\* The body of a POST /gemini (an object, or no usable body at all) has no
\* message or an empty one.
NoMessage(body) ==
    \/ body.kind \in {"absent", "null", "falsy"}
    \/ body.kind = "object" /\ body.val \in {"<undefined>", "<null>", "<0>", ""}

\* C3: an authenticated POST /gemini whose message is empty or missing is
\* answered 400 without any outbound call, with or without GEMINI_API_KEY.
C3_EmptyMessage ==
    (req.route = "/gemini" /\ ~Unauthenticated(req) /\ NoMessage(req.body))
      => /\ resp.status = 400
         /\ resp.kind = "json"
         /\ ~did.outbound

\* C3 happens: the 400 came although no API key is configured.
C3_Witness ==
    /\ req.route = "/gemini"
    /\ ~Unauthenticated(req)
    /\ req.body = PlainBody("object", "")
    /\ ~api_key
    /\ resp.status = 400

\* The handler called the upstream and got an HTTP response back.
UpstreamAnswered == req.route = "/gemini" /\ did.outbound /\ ~req.up.net

\* C4 as claimed: every non-2xx upstream answer, whatever its body, becomes
\* a 502 whose error is the upstream's message or a text made of the status.
\* Stated for the bodies that are not JSON and for those that parse; what an
\* unparsable JSON body gives depends on the installed requests version.
C4_UpstreamErrorIs502 ==
    (UpstreamAnswered /\ ~req.up.ok /\ (req.up.ctjson => req.up.parses))
      => /\ resp.status = 502
         /\ resp.error \in {StatusText} \cup {TextOf(n) : n \in AllNodes}

\* C5 as claimed: every parsable 2xx upstream answer becomes a success whose
\* reply is the first candidate's first part's text, and "" for every other
\* shape of the body.
C5_ReplyOrEmpty ==
    (UpstreamAnswered /\ req.up.ok /\ req.up.parses)
      => /\ resp.status = 200
         /\ resp.error = ""
         /\ resp.reply = IF SubSeq(req.up.shape, 1, 6) = GoodPrefix(6)
                         THEN TextOf(req.up.shape[7]) ELSE ""

\* C6 as claimed: whatever the request, /session, /logout, /predict and
\* /gemini answer with a response of their own making (JSON, or the
\* redirect of GET /logout) with status 200, 302, 400, 401, 500 or 502; no
\* exception leaves a handler.
C6_NoExceptionEscapes ==
    req.route \in {"/session", "/logout", "/predict", "/gemini"}
      => /\ resp.kind \in {"json", "redirect"}
         /\ resp.status \in {200, 302, 400, 401, 500, 502}
         /\ (resp.status >= 400 => resp.error # "")

\* C7: the gate lets a request through exactly when it carries the session
\* flag or a non-empty cookie, whoever issued the cookie; /dashboard,
\* /predict and /gemini serve only then (else redirect to /, 401, 401) and
\* /auth redirects to /dashboard exactly then.
C7_AuthGate ==
    LET through == req.user \/ (req.cookie # NoCookie /\ req.cookie # "") IN
    /\ req.route = "/dashboard" =>
         resp = IF through THEN render_template("dashboard.html") ELSE redirect("/")
    /\ req.route = "/auth" =>
         resp = IF through THEN redirect("/dashboard") ELSE render_template("auth.html")
    /\ req.route \in {"/predict", "/gemini"} =>
         ((resp.status = 401) <=> ~through)
    /\ req.route \in {"/predict", "/gemini"} /\ ~through =>
         resp = jsonify_error(401, "unauthorized") /\ did = NoEffects

\* C7 happens: a cookie no /session ever issued opened the dashboard.
C7_Witness ==
    /\ req.route = "/dashboard"
    /\ ~req.user /\ req.cookie = "forged"
    /\ resp = render_template("dashboard.html")


\* C8: nothing serializes two /predict requests on uploads/image.jpg: what a
\* request reads back and scores is what the path holds when it reads, the
\* last writer's image, whether or not that is the image it uploaded itself.
C8_ReadsLastWriter ==
    [][\A t \in Threads :
         (pc[t] = "saved" /\ pc'[t] = "loaded" /\ file \in Images)
           => loaded'[t] = [img |-> file, intact |-> TRUE]]_vars

\* C8 happens: A wrote, B overwrote before A read, no two writes overlapped,
\* and A answered with the label of B's image, not of its own.
C8_Witness ==
    /\ pc["A"] = "done" /\ tresp["A"].status = 200
    /\ timg["A"] # timg["B"] /\ timg["B"] \in Images
    /\ loaded["A"] = [img |-> timg["B"], intact |-> TRUE]
    /\ ~overlapped["A"] /\ ~overlapped["B"]
    /\ tresp["A"].result = Diagnosis(weights[timg["B"]])
    /\ tresp["A"].result # Diagnosis(weights[timg["A"]])

\* C9: the label of a successful /predict depends on the score alone:
\* PNEUMONIA exactly when the score is above 0.5 (so NORMAL at 0.5 and for
\* NaN, PNEUMONIA one grid step above 0.5), never a third label, and a
\* higher score never turns PNEUMONIA into NORMAL.
C9_ThresholdLabel ==
    \A t \in Threads :
      (pc[t] = "done" /\ tresp[t].status = 200) =>
        /\ tresp[t].result \in {"PNEUMONIA", "NORMAL"}
        /\ (tresp[t].result = "PNEUMONIA") <=> (~preds[t].nan /\ 2 * preds[t].num > ScoreDen)
        /\ (~preds[t].nan /\ 2 * preds[t].num = ScoreDen) => tresp[t].result = "NORMAL"
        /\ (~preds[t].nan /\ preds[t].num = ScoreDen \div 2 + 1) => tresp[t].result = "PNEUMONIA"
        /\ \A u \in Threads :
             (/\ pc[u] = "done" /\ tresp[u].status = 200
              /\ ~preds[t].nan /\ ~preds[u].nan
              /\ preds[u].num > preds[t].num
              /\ tresp[t].result = "PNEUMONIA") => tresp[u].result = "PNEUMONIA"

\* C9 happens: one request scored exactly 0.5 and got NORMAL, the other
\* scored one step more and got PNEUMONIA.
C9_Witness ==
    /\ pc["A"] = "done" /\ tresp["A"].status = 200
    /\ pc["B"] = "done" /\ tresp["B"].status = 200
    /\ ~preds["A"].nan /\ 2 * preds["A"].num = ScoreDen /\ tresp["A"].result = "NORMAL"
    /\ ~preds["B"].nan /\ preds["B"].num = preds["A"].num + 1 /\ tresp["B"].result = "PNEUMONIA"

\* The client's next request will pass the gate.
AuthedNow == session_user \/ cookie \notin {NoCookie, ""}
\* Answers of the gated routes to a request that did not pass.
Denials == {redirect("/"), jsonify_error(401, "unauthorized")}

\* C10: for a client that applies each response's cookie changes, a
\* successful POST /session makes it authenticated and it stays so until a
\* /logout; /logout always succeeds (GET redirects to /, POST answers ok),
\* clears the flag and deletes the cookie; from then on the client stays
\* unauthenticated, and /dashboard, /predict and /gemini turn it away, until
\* the next successful POST /session.
C10_SessionLifecycle ==
    [][LET created == req'.route = "/session" /\ resp'.status = 200 /\ resp'.ok
           gated == req'.route \in GatedRoutes
       IN  /\ created => (AuthedNow' /\ session_user' /\ cookie' = req'.body.val)
           /\ (AuthedNow /\ req'.route # "/logout") => AuthedNow'
           /\ req'.route = "/logout" =>
                /\ ~session_user' /\ cookie' = NoCookie /\ ~AuthedNow'
                /\ resp' = [(IF req'.method = "GET" THEN redirect("/") ELSE jsonify_ok)
                              EXCEPT !.set_cookie = "<delete>"]
           /\ (~AuthedNow /\ ~created) => ~AuthedNow'
           /\ (gated /\ ~AuthedNow) => (resp' \in Denials /\ did' = NoEffects)
           /\ (gated /\ AuthedNow) => resp' \notin Denials]_vars

\* C10 happens: a client that had uploaded an image while logged in has
\* logged out, and its next /predict was turned away.
C10_Witness ==
    /\ file \in Images
    /\ ~AuthedNow
    /\ req.route = "/predict" /\ req.body.val = "<b64>" /\ req.body.prefix = "none"
    /\ resp = jsonify_error(401, "unauthorized")

====
